---- MODULE Spec2Model ----
(***************************************************************************)
(* A model of supervisor.core.process_manager.ProcessManager: the          *)
(* lifecycle supervisor of one child process (start / attach / stop /      *)
(* restart, port probing and release, automatic restart from the output    *)
(* drain), together with the part of the operating system it talks to:     *)
(* the process table, the pending SIGKILLs and the owner of the            *)
(* configured port.                                                        *)
(*                                                                         *)
(* The controller and the output drains are asyncio coroutines on one      *)
(* event loop: the code between two suspension points (await sleep, the    *)
(* executor running the reader thread) is one atomic action here.          *)
(*                                                                         *)
(* Two smaller models share the module: the route of a child's output      *)
(* lines to the log file and to the output callback (OutputSpec), and      *)
(* simply_maestro.core.file_manager.FileManager on a small file system     *)
(* with "..", a symbolic link and backup files (FileSpec). Each            *)
(* specification leaves the variables of the others at rest.               *)
(***************************************************************************)
EXTENDS Integers, FiniteSets, Sequences, TLC

\* ------------------------------------------------------------------ bounds
\* Process identifiers the OS hands out in a run: 1..MaxPid.
MaxPid == 3
\* ProcessConfig.max_restart_attempts ranges over 0..MaxAttempts.
MaxAttempts == 1

None == 0
Pids == 1..MaxPid

VARIABLES
    cfg,              \* ProcessConfig: command, port, capture_output, log_to_file,
                      \* max_restart_attempts
    process,          \* self._process: the Popen handle, named by the child's pid, or None
    pid,              \* self._pid
    restart_count,    \* self._restart_count
    log_file_handle,  \* self._log_file_handle: "None", "open" or "closed"
    proc,             \* OS process table: pid -> "unborn" | "alive" | "dead"
    killPending,      \* pids a SIGKILL was sent to and that have not died of it yet
    portOwner,        \* the pid listening on the configured port, or None
    nextPid,          \* the next pid the OS hands out
    spawned,          \* the pids this supervisor spawned with Popen
    drain,            \* per spawned pid, the position of its _read_output task
    ctl,              \* the controller's call in flight
    res,              \* the (ok, message) a call returns to the controller in this step
    auto_restarts,    \* children spawned by the drain since the last explicit start
    output_callback,  \* self._output_callback is set
    out,              \* the output of one child: where its stdout goes, the lines
                      \* it wrote, those in the pipe, those the callback and the
                      \* log file received
    path,             \* FileManager: the path argument of the calls
    files,            \* the regular files of the file system: absolute path -> content
    dirs,             \* the directories of the file system
    fres              \* the (ok, message) of the FileManager call of this step


vars == <<cfg, process, pid, restart_count, log_file_handle, proc, killPending,
          portOwner, nextPid, spawned, drain, ctl, res, auto_restarts,
          output_callback, out, path, files, dirs, fres>>

supVars == <<process, pid, restart_count, log_file_handle>>
osVars == <<proc, killPending, portOwner, nextPid, spawned>>
outVars == <<output_callback, out>>
fileVars == <<path, files, dirs, fres>>
auxVars == <<outVars, fileVars>>

\* ------------------------------------------------------------ the OS side
\* psutil.Process(p).is_running() and status() != STATUS_ZOMBIE; a child that
\* exited ("dead": a zombie until reaped, gone afterwards) is not running.
Alive(p) == p # None /\ proc[p] = "alive"

\* The pids the supervisor may not signal (kill raises EPERM): the children
\* of a command that runs under another user id.
unsignalable == IF cfg.command = "setuid" THEN spawned ELSE {}

\* ProcessManager.is_running
is_running == process # None /\ pid # None /\ Alive(pid)

\* ProcessManager._find_process_by_port
_find_process_by_port == IF cfg.port THEN portOwner ELSE None

\* ProcessManager._get_processes_using_port
_get_processes_using_port == IF cfg.port /\ portOwner # None THEN {portOwner} ELSE {}

\* ProcessManager._kill_process_by_pid on each pid of the port, then the
\* re-probe of _force_kill_port_processes: terminate, wait, kill, wait.
\* The owner may refuse the signal (AccessDenied, caught), die within the
\* waits, or outlive them with the SIGKILL still pending.
_force_kill_port_processes(w) ==
    LET o == portOwner IN
    IF ~cfg.port \/ o = None
    THEN [proc |-> proc, killPending |-> killPending, portOwner |-> portOwner,
          port_free |-> TRUE]
    ELSE IF o \in unsignalable
    THEN [proc |-> proc, killPending |-> killPending, portOwner |-> portOwner,
          port_free |-> FALSE]
    ELSE IF w
    THEN [proc |-> [proc EXCEPT ![o] = "dead"], killPending |-> killPending \ {o},
          portOwner |-> None, port_free |-> TRUE]
    ELSE [proc |-> proc, killPending |-> killPending \cup {o}, portOwner |-> portOwner,
          port_free |-> FALSE]

\* The state left by a call that changes nothing.
Same(ok, msg) ==
    [process |-> process, pid |-> pid, restart_count |-> restart_count,
     log_file_handle |-> log_file_handle, proc |-> proc, killPending |-> killPending,
     portOwner |-> portOwner, nextPid |-> nextPid,
     spawned |-> spawned, drain |-> drain, ok |-> ok, msg |-> msg, spawns |-> FALSE]

\* An attach that never adopts the owner of the port.
attach_finds_nothing == Same(FALSE, "no_process_on_port")

\* ProcessManager.attach_to_existing_process, as start() calls it.
attach_to_existing_process ==
    IF ~cfg.port THEN Same(FALSE, "no_port")
    ELSE IF is_running THEN Same(TRUE, "already_attached")
    ELSE IF _find_process_by_port = None THEN Same(FALSE, "no_process_on_port")
    ELSE [Same(TRUE, "attached") EXCEPT !.pid = _find_process_by_port, !.process = None]

\* Does the output of a new child reach a drain: capture_output and a stdout
\* pipe, which Popen only creates when the output does not go to the log file.
StartsDrain == cfg.capture_output /\ ~cfg.log_to_file

\* The counter after start() has passed its early returns.
CountReset == 0

\* A spawn whose error path returns without closing the log it just opened.
Spawn_keeps_log_open(k, e) ==
    LET base == [Same(TRUE, "started") EXCEPT !.proc = k.proc,
                    !.killPending = k.killPending, !.portOwner = k.portOwner,
                    !.restart_count = CountReset]
        p == nextPid
    IN  IF cfg.log_to_file /\ e.fail = "log"
        THEN [base EXCEPT !.ok = FALSE, !.msg = "spawn_failed: open",
                 !.log_file_handle = IF log_file_handle = "open" THEN "closed"
                                     ELSE log_file_handle]
        ELSE IF e.fail = "popen"
        THEN [base EXCEPT !.ok = FALSE, !.msg = "spawn_failed: Popen",
                 !.log_file_handle = IF cfg.log_to_file THEN "open" ELSE log_file_handle]
        ELSE [base EXCEPT !.process = p, !.pid = p, !.spawns = TRUE,
                 !.log_file_handle = IF cfg.log_to_file THEN "open" ELSE log_file_handle,
                 !.proc = [k.proc EXCEPT ![p] = "alive"],
                 !.nextPid = p + 1,
                 !.spawned = spawned \cup {p},
                 !.drain = [drain EXCEPT ![p] = IF StartsDrain THEN "reading" ELSE "none"]]

\* start(), from "self._restart_count = 0" on: open the log, spawn the child.
\* k is what the port clearing left of the OS. The message of a failure is
\* "Failed to start process: " followed by the text of the exception, here the
\* name of the call that raised it.
Spawn(k, e) ==
    LET base == [Same(TRUE, "started") EXCEPT !.proc = k.proc,
                    !.killPending = k.killPending, !.portOwner = k.portOwner,
                    !.restart_count = CountReset]
        p == nextPid
    IN  IF cfg.log_to_file /\ e.fail = "log"
        THEN \* open() raises: an open handle was closed before and stays referenced
             [base EXCEPT !.ok = FALSE, !.msg = "spawn_failed: open",
                 !.log_file_handle = IF log_file_handle = "open" THEN "closed"
                                     ELSE log_file_handle]
        ELSE IF e.fail = "popen"
        THEN \* Popen raises: the handle just opened is closed and dropped
             [base EXCEPT !.ok = FALSE, !.msg = "spawn_failed: Popen",
                 !.log_file_handle = IF cfg.log_to_file THEN "None" ELSE log_file_handle]
        ELSE [base EXCEPT !.process = p, !.pid = p, !.spawns = TRUE,
                 !.log_file_handle = IF cfg.log_to_file THEN "open" ELSE log_file_handle,
                 !.proc = [k.proc EXCEPT ![p] = "alive"],
                 !.nextPid = p + 1,
                 !.spawned = spawned \cup {p},
                 !.drain = [drain EXCEPT ![p] = IF StartsDrain THEN "reading" ELSE "none"]]

\* A start() that spawns although the port could not be freed.
start_spawns_on_owned_port(force, e) ==
    LET a == attach_to_existing_process IN
    IF cfg.port /\ ~force /\ a.ok THEN a
    ELSE LET k == IF force /\ cfg.port /\ _get_processes_using_port # {}
                  THEN _force_kill_port_processes(e.kill_works)
                  ELSE [proc |-> proc, killPending |-> killPending,
                        portOwner |-> portOwner, port_free |-> TRUE]
         IN  Spawn(k, e)

\* start(), lines 161-252: attach, or clear the port and spawn.
start_not_running(force, e) ==
    LET a == attach_to_existing_process IN
    IF cfg.port /\ ~force /\ a.ok THEN a
    ELSE LET k == IF force /\ cfg.port /\ _get_processes_using_port # {}
                  THEN _force_kill_port_processes(e.kill_works)
                  ELSE [proc |-> proc, killPending |-> killPending,
                        portOwner |-> portOwner, port_free |-> TRUE]
         IN  IF ~k.port_free
             THEN [Same(FALSE, "port_conflict") EXCEPT !.proc = k.proc,
                      !.killPending = k.killPending, !.portOwner = k.portOwner]
             ELSE Spawn(k, e)

\* start() without its early return.
start_without_running_check(force, e) == start_not_running(force, e)

\* ProcessManager.start(force_new_process)
start(force, e) ==
    IF is_running THEN Same(TRUE, "already_running")
    ELSE start_not_running(force, e)

\* The choices of the environment that a start() call can meet: whether the
\* owners of the port die of the forced kill, and whether opening the log
\* ("log") or Popen ("popen") raises.
Choices(force) ==
    IF is_running \/ (cfg.port /\ ~force /\ attach_to_existing_process.ok)
    THEN {[kill_works |-> TRUE, fail |-> "none"]}
    ELSE [kill_works : IF force /\ cfg.port /\ portOwner # None
                          /\ portOwner \notin unsignalable
                       THEN BOOLEAN ELSE {TRUE},
          fail : IF cfg.log_to_file THEN {"none", "log", "popen"} ELSE {"none", "popen"}]

\* The state a start() call leaves, as an action.
Apply(r) ==
    /\ r.spawns => nextPid <= MaxPid
    /\ process' = r.process
    /\ pid' = r.pid
    /\ restart_count' = r.restart_count
    /\ log_file_handle' = r.log_file_handle
    /\ proc' = r.proc
    /\ killPending' = r.killPending
    /\ portOwner' = r.portOwner
    /\ nextPid' = r.nextPid
    /\ spawned' = r.spawned

Idle == [pc |-> "idle", op |-> "none", target |-> None, was_attached |-> FALSE,
         pid0 |-> None, run0 |-> FALSE, gone |-> FALSE]

\* No call returned in this step.
NoResult ==
    [op |-> "none", force |-> FALSE, ok |-> TRUE, msg |-> "none", pid0 |-> None,
     run0 |-> FALSE, gone |-> FALSE]

Result(op, force, ok, msg, pid0, run0) ==
    [op |-> op, force |-> force, ok |-> ok, msg |-> msg, pid0 |-> pid0, run0 |-> run0,
     gone |-> FALSE]

\* The configurations: every ProcessConfig over the fields the code reads.
\* max_restart_attempts is only read by a drain, so the configurations that
\* start none are taken once, with the largest value.
Configs ==
    {c \in [command : {"plain", "setuid"}, port : BOOLEAN, capture_output : BOOLEAN,
            log_to_file : BOOLEAN, max_restart_attempts : 0..MaxAttempts] :
        (c.capture_output /\ ~c.log_to_file) \/ c.max_restart_attempts = MaxAttempts}

\* ProcessManager.__init__: nothing tracked, nothing spawned, no call in
\* flight.
SupervisorAtRest ==
    /\ process = None
    /\ pid = None
    /\ restart_count = 0
    /\ log_file_handle = "None"
    /\ proc = [p \in Pids |-> "unborn"]
    /\ killPending = {}
    /\ portOwner = None
    /\ nextPid = 1
    /\ spawned = {}
    /\ drain = [p \in Pids |-> "none"]
    /\ ctl = Idle
    /\ res = NoResult
    /\ auto_restarts = 0

\* No child has been started whose output is followed.
NoOutput ==
    [stdout |-> "none", child |-> "none", reader |-> "none", written |-> <<>>,
     pipe |-> <<>>, observed |-> <<>>, logged |-> <<>>]

\* The output of the child is not followed line by line.
OutputAtRest ==
    /\ output_callback = FALSE
    /\ out = NoOutput

\* No FileManager call returned in this step.
NoFileResult ==
    [op |-> "none", ok |-> TRUE, msg |-> "none", content |-> <<>>, listing |-> {}]

\* No FileManager is in use.
FilesAtRest ==
    /\ path = <<>>
    /\ files = <<>>
    /\ dirs = {<<>>}
    /\ fres = NoFileResult

Init ==
    /\ cfg \in Configs
    /\ SupervisorAtRest
    /\ OutputAtRest
    /\ FilesAtRest

\* A public call returns (or raises) to the controller: stop() and start()
\* hand their result back; restart() discards stop()'s result and sleeps
\* restart_delay before it calls start(force_new_process=True).
Finish(c, ok, msg) ==
    IF c.op = "restart" /\ msg # "raised"
    THEN /\ ctl' = [c EXCEPT !.pc = "restart_delay"]
         /\ res' = NoResult
    ELSE /\ ctl' = Idle
         /\ res' = [Result(c.op, FALSE, ok, msg, c.pid0, c.run0) EXCEPT !.gone = c.gone]

\* _verify_port_released: its first probe finds the port free.
PortFreeNow == _find_process_by_port = None /\ _get_processes_using_port = {}

\* stop(): the log handle is closed and dropped, pid and handle are cleared.
ClosedLog == IF log_file_handle = "open" THEN "None" ELSE log_file_handle

\* A clean-up that closes the log but goes on tracking the process.
CleanupAndFinal_keeps_tracking(c, kp, pr, po) ==
    /\ log_file_handle' = ClosedLog
    /\ process' = process
    /\ pid' = pid
    /\ killPending' = kp
    /\ proc' = pr
    /\ portOwner' = po
    /\ UNCHANGED <<restart_count, nextPid, spawned, drain, cfg, auto_restarts>>
    /\ IF cfg.port /\ po # None
       THEN /\ ctl' = [c EXCEPT !.pc = "final_wait"]
            /\ res' = NoResult
       ELSE Finish(c, TRUE, "stopped")

\* A clean-up that closes the log and drops the handle but keeps the pid.
CleanupAndFinal_keeps_pid(c, kp, pr, po) ==
    /\ log_file_handle' = ClosedLog
    /\ process' = None
    /\ pid' = pid
    /\ killPending' = kp
    /\ proc' = pr
    /\ portOwner' = po
    /\ UNCHANGED <<restart_count, nextPid, spawned, drain, cfg, auto_restarts>>
    /\ IF cfg.port /\ po # None
       THEN /\ ctl' = [c EXCEPT !.pc = "final_wait"]
            /\ res' = NoResult
       ELSE Finish(c, TRUE, "stopped")

\* stop(), lines 511-533: clean up, then the final verification of the port.
\* kp, pr, po: the pending kills, process table and port owner at this point.
CleanupAndFinal(c, kp, pr, po) ==
    /\ log_file_handle' = ClosedLog
    /\ process' = None
    /\ pid' = None
    /\ killPending' = kp
    /\ proc' = pr
    /\ portOwner' = po
    /\ UNCHANGED <<restart_count, nextPid, spawned, drain, cfg, auto_restarts>>
    /\ IF cfg.port /\ po # None
       THEN /\ ctl' = [c EXCEPT !.pc = "final_wait"]
            /\ res' = NoResult
       ELSE Finish(c, TRUE, "stopped")

\* stop(), lines 494-509, after the termination escalation.
StopAfterTerm(c, kp) ==
    IF (c.was_attached \/ cfg.port) /\ ~PortFreeNow
    THEN /\ ctl' = [c EXCEPT !.pc = "port_wait"]
         /\ killPending' = kp
         /\ res' = NoResult
         /\ UNCHANGED <<cfg, process, pid, restart_count, log_file_handle, proc,
                        portOwner, nextPid, spawned, drain, auto_restarts>>
    ELSE CleanupAndFinal(c, kp, proc, portOwner)

\* stop() answering "No process ID available" where nothing runs.
stop_not_running_refused == [ok |-> FALSE, msg |-> "no_pid"]

\* stop(), lines 447-448: the result when nothing is running.
stop_not_running == [ok |-> TRUE, msg |-> "not_running"]

\* stop(), lines 534-543: psutil.AccessDenied is caught and becomes the result
\* (False, "Failed to stop process: ...").
stop_access_denied == [ok |-> FALSE, msg |-> "stop_failed"]

\* stop(), lines 447-467: the early return, the snapshot and the SIGTERM to
\* the process group. A group the supervisor may not signal raises
\* PermissionError, the fallback terminate() raises AccessDenied, and stop()
\* returns its failure with the state untouched.
StopBegin(op) ==
    /\ ctl.pc = "idle"
    /\ LET c == [Idle EXCEPT !.op = op, !.pid0 = pid, !.run0 = Alive(pid)] IN
       IF ~is_running
       THEN /\ Finish(c, stop_not_running.ok, stop_not_running.msg)
            /\ UNCHANGED <<cfg, supVars, osVars, drain, auto_restarts>>
       ELSE IF pid \in unsignalable
       THEN /\ Finish(c, stop_access_denied.ok, stop_access_denied.msg)
            /\ UNCHANGED <<cfg, supVars, osVars, drain, auto_restarts>>
       ELSE /\ ctl' = [c EXCEPT !.pc = "term_wait", !.target = pid,
                                !.was_attached = (process = None)]
            /\ res' = NoResult
            /\ UNCHANGED <<cfg, supVars, osVars, drain, auto_restarts>>
    /\ UNCHANGED auxVars

\* The controller calls stop().
CtlStop == StopBegin("stop")

\* The controller calls restart().
CtlRestart == StopBegin("restart")

\* stop(), line 470 and _verify_process_stopped, lines 274-284: a poll of the
\* liveness of the process. It finds the process gone (exited, or
\* NoSuchProcess; noted in gone) and the wait ends, or it finds it alive for
\* the last time within the 5 s and the loop sleeps once more: no poll
\* follows that sleep.
StopTermWait ==
    /\ ctl.pc = "term_wait"
    /\ IF ~Alive(ctl.target)
       THEN StopAfterTerm([ctl EXCEPT !.gone = TRUE], killPending)
       ELSE /\ ctl' = [ctl EXCEPT !.pc = "kill_due"]
            /\ res' = NoResult
            /\ UNCHANGED <<cfg, supVars, osVars, drain, auto_restarts>>
    /\ UNCHANGED auxVars

\* stop(), lines 470-473: the wait timed out and SIGKILL goes to the group of
\* self._pid, as it is now: os.getpgid(None) raises TypeError when the drain
\* cleared the pid during the last sleep, a process that exited during it
\* (a zombie) takes the signal without effect.
StopKill ==
    /\ ctl.pc = "kill_due"
    /\ IF pid = None
       THEN /\ Finish(ctl, FALSE, "raised")
            /\ UNCHANGED <<cfg, supVars, osVars, drain, auto_restarts>>
       ELSE StopAfterTerm(ctl, IF Alive(pid) THEN killPending \cup {pid}
                               ELSE killPending)
    /\ UNCHANGED auxVars

\* stop(), lines 496-509: _verify_port_released(5.0) ends. Either a probe
\* found the port free, or the wait timed out and the owner is force-killed.
StopPortWait ==
    /\ ctl.pc = "port_wait"
    /\ IF PortFreeNow
       THEN CleanupAndFinal(ctl, killPending, proc, portOwner)
       ELSE \E w \in BOOLEAN :
            LET k == _force_kill_port_processes(w) IN
            IF ~k.port_free /\ ctl.was_attached /\ k.portOwner \in unsignalable
            THEN /\ Finish(ctl, FALSE, "port_release_failed")
                 /\ UNCHANGED <<cfg, supVars, osVars, drain, auto_restarts>>
            ELSE CleanupAndFinal(ctl, k.killPending, k.proc, k.portOwner)
    /\ UNCHANGED auxVars

\* A final verification that polls until the port is free, without a bound.
StopFinalWait_unbounded ==
    /\ ctl.pc = "final_wait"
    /\ PortFreeNow
    /\ Finish(ctl, TRUE, "stopped")
    /\ UNCHANGED <<cfg, supVars, osVars, drain, auto_restarts>>
    /\ UNCHANGED auxVars

\* stop(), lines 526-533: _verify_port_released(1.0) ends.
StopFinalWait ==
    /\ ctl.pc = "final_wait"
    /\ IF PortFreeNow
       THEN /\ Finish(ctl, TRUE, "stopped")
            /\ UNCHANGED <<cfg, supVars, osVars, drain, auto_restarts>>
       ELSE \E w \in BOOLEAN :
            LET k == _force_kill_port_processes(w) IN
            /\ proc' = k.proc
            /\ killPending' = k.killPending
            /\ portOwner' = k.portOwner
            /\ Finish(ctl, k.port_free, IF k.port_free THEN "stopped" ELSE "port_in_use")
            /\ UNCHANGED <<cfg, supVars, nextPid, spawned, drain,
                           auto_restarts>>
    /\ UNCHANGED auxVars

\* restart(), line 553: after the delay, start(force_new_process=True).
RestartStart ==
    /\ ctl.pc = "restart_delay"
    /\ \E e \in Choices(TRUE) :
          LET r == start(TRUE, e) IN
          /\ Apply(r)
          /\ drain' = r.drain
          /\ res' = Result("restart", TRUE, r.ok, r.msg, ctl.pid0, ctl.run0)
    /\ ctl' = Idle
    /\ auto_restarts' = 0
    /\ UNCHANGED cfg
    /\ UNCHANGED auxVars

\* The controller calls start(force_new_process).
CtlStart ==
    /\ ctl.pc = "idle"
    /\ \E force \in BOOLEAN : \E e \in Choices(force) :
          LET r == start(force, e) IN
          /\ Apply(r)
          /\ drain' = r.drain
          /\ res' = Result("start", force, r.ok, r.msg, None, FALSE)
    /\ auto_restarts' = 0
    /\ UNCHANGED <<cfg, ctl>>
    /\ UNCHANGED auxVars

\* An auto-restart path that counts an attempt whatever the counter holds.
auto_restart_always == TRUE

\* _read_output, line 619: the auto-restart path counts an attempt and
\* restarts only while the counter is below the maximum.
auto_restart_allowed == restart_count < cfg.max_restart_attempts

\* An exit check that only asks whether a handle is tracked.
tracked_child_unchecked == process # None

\* _read_output, line 602: the exit check reads the handle the supervisor
\* tracks now, whichever child the drain was started for.
tracked_child_exited == process # None /\ proc[process] = "dead"

\* _read_output, lines 599-624: the reader thread meets end-of-file on the
\* child's output (the child exited or closed its stdout) and the coroutine
\* resumes; when the tracked handle has exited it closes the log, clears pid
\* and handle and, below the maximum, counts an attempt and sleeps
\* restart_delay.
DrainDetect(p) ==
    /\ drain[p] = "reading"
    /\ IF tracked_child_exited
       THEN /\ log_file_handle' = ClosedLog
            /\ process' = None
            /\ pid' = None
            /\ IF auto_restart_allowed
               THEN /\ restart_count' = restart_count + 1
                    /\ drain' = [drain EXCEPT ![p] = "delay"]
               ELSE /\ restart_count' = restart_count
                    /\ drain' = [drain EXCEPT ![p] = "none"]
       ELSE /\ drain' = [drain EXCEPT ![p] = "none"]
            /\ UNCHANGED supVars
    /\ res' = [NoResult EXCEPT !.op = "drain", !.pid0 = p]
    /\ UNCHANGED <<cfg, osVars, ctl, auto_restarts>>
    /\ UNCHANGED auxVars

\* _read_output, line 625: after the delay, start(force_new_process=True).
DrainRestart(p) ==
    /\ drain[p] = "delay"
    /\ \E e \in Choices(TRUE) :
          LET r == start(TRUE, e) IN
          /\ Apply(r)
          /\ drain' = [r.drain EXCEPT ![p] = "none"]
          /\ auto_restarts' = IF r.spawns THEN auto_restarts + 1 ELSE auto_restarts
    /\ res' = NoResult
    /\ UNCHANGED <<cfg, ctl>>
    /\ UNCHANGED auxVars

\* A process exits: on its own, or of a signal it was sent. It stops
\* listening; a pending SIGKILL has nothing left to kill.
OsExit(p) ==
    /\ Alive(p)
    /\ proc' = [proc EXCEPT ![p] = "dead"]
    /\ portOwner' = IF portOwner = p THEN None ELSE portOwner
    /\ killPending' = killPending \ {p}
    /\ res' = NoResult
    /\ UNCHANGED <<cfg, supVars, nextPid, spawned, drain, ctl,
                   auto_restarts>>
    /\ UNCHANGED auxVars

\* A child of the supervisor binds the configured port.
ChildListen(p) ==
    /\ cfg.port
    /\ p \in spawned
    /\ Alive(p)
    /\ portOwner = None
    /\ portOwner' = p
    /\ res' = NoResult
    /\ UNCHANGED <<cfg, supVars, proc, killPending, nextPid, spawned,
                   drain, ctl, auto_restarts>>
    /\ UNCHANGED auxVars

\* A process the supervisor did not spawn starts listening on the port.
ForeignListen ==
    /\ cfg.port
    /\ portOwner = None
    /\ nextPid <= MaxPid
    /\ proc' = [proc EXCEPT ![nextPid] = "alive"]
    /\ portOwner' = nextPid
    /\ nextPid' = nextPid + 1
    /\ res' = NoResult
    /\ UNCHANGED <<cfg, supVars, killPending, spawned, drain, ctl,
                   auto_restarts>>
    /\ UNCHANGED auxVars

Next ==
    \/ CtlStart
    \/ CtlStop
    \/ CtlRestart
    \/ StopTermWait
    \/ StopKill
    \/ StopPortWait
    \/ StopFinalWait
    \/ RestartStart
    \/ \E p \in Pids : DrainDetect(p)
    \/ \E p \in Pids : DrainRestart(p)
    \/ \E p \in Pids : OsExit(p)
    \/ \E p \in Pids : ChildListen(p)
    \/ ForeignListen

Spec == Init /\ [][Next]_vars

\* The drains run on the event loop and in its executor: once the reader
\* thread has met end-of-file the coroutine is resumed, and a sleeping
\* coroutine is woken when its delay is over. The controller and the
\* processes of the OS are under no obligation to act.
FairSpec ==
    /\ Spec
    /\ \A p \in Pids : WF_vars(DrainDetect(p))
    /\ \A p \in Pids : WF_vars(DrainRestart(p))

\* The steps of a call in flight: the waits of stop() are poll loops bounded
\* by a timeout (5 s for the process, 5 s and 1 s for the port) and the
\* delay of restart() is a finite sleep.
CallStep ==
    \/ StopTermWait
    \/ StopKill
    \/ StopPortWait
    \/ StopFinalWait
    \/ RestartStart

\* The suspension points of stop() and restart() in the order of the code:
\* how many a call at that point may still go through.
CallRank ==
    [idle |-> 0, restart_delay |-> 1, final_wait |-> 2, port_wait |-> 3,
     kill_due |-> 4, term_wait |-> 5]

\* ------------------------------------------------------ the child's output
\* The lines a child writes in a run.
MaxLines == 2

\* The lines a child may write, each with its terminator: a word, a word
\* followed by a blank, an empty line.
Lines == {<<"x", "\n">>, <<"x", " ", "\n">>, <<"\n">>}

\* The characters str.rstrip() takes for whitespace, of those in Lines.
Whitespace == {" ", "\n"}

\* str.rstrip(): the string without its trailing whitespace.
RECURSIVE rstrip(_)
rstrip(s) ==
    IF s # <<>> /\ s[Len(s)] \in Whitespace
    THEN rstrip(SubSeq(s, 1, Len(s) - 1))
    ELSE s

\* start(), lines 198-229: where the stdout of the child goes: the log file
\* when log_to_file is set, otherwise a pipe when capture_output is set,
\* otherwise the stdout of the supervisor.
stdout_dest ==
    IF cfg.log_to_file THEN "file"
    ELSE IF cfg.capture_output THEN "pipe"
    ELSE "inherit"

\* start(), lines 233-250: Popen with that destination; a drain is started
\* only when capture_output is set and the handle has a stdout, i.e. a pipe.
OutStart ==
    /\ out.child = "none"
    /\ out' = [out EXCEPT !.stdout = stdout_dest,
                          !.child = "alive",
                          !.reader = IF cfg.capture_output /\ stdout_dest = "pipe"
                                     THEN "reading" ELSE "none"]
    /\ UNCHANGED <<cfg, supVars, osVars, drain, ctl, res, auto_restarts,
                   output_callback, fileVars>>

\* The child writes a line to its stdout: into the log file, into the pipe,
\* or to the terminal of the supervisor.
ChildWrite(l) ==
    /\ out.child = "alive"
    /\ Len(out.written) < MaxLines
    /\ out' = [out EXCEPT !.written = Append(@, l),
                          !.logged = IF out.stdout = "file" THEN Append(@, l) ELSE @,
                          !.pipe = IF out.stdout = "pipe" THEN Append(@, l) ELSE @]
    /\ UNCHANGED <<cfg, supVars, osVars, drain, ctl, res, auto_restarts,
                   output_callback, fileVars>>

\* read_output_thread, lines 576-594: readline() returns the next line of the
\* pipe; the line is stripped, written to the log file when capture_output
\* and log_to_file are both set and the handle is open, and handed to the
\* callback when one is set.
ReadLine ==
    /\ out.reader = "reading"
    /\ out.pipe # <<>>
    /\ LET line == rstrip(Head(out.pipe)) IN
       out' = [out EXCEPT !.pipe = Tail(@),
                          !.logged = IF cfg.capture_output /\ cfg.log_to_file
                                     THEN Append(@, line \o <<"\n">>) ELSE @,
                          !.observed = IF output_callback THEN Append(@, line) ELSE @]
    /\ UNCHANGED <<cfg, supVars, osVars, drain, ctl, res, auto_restarts,
                   output_callback, fileVars>>

\* The child exits: the write end of its stdout is closed.
ChildExit ==
    /\ out.child = "alive"
    /\ out' = [out EXCEPT !.child = "exited"]
    /\ UNCHANGED <<cfg, supVars, osVars, drain, ctl, res, auto_restarts,
                   output_callback, fileVars>>

\* read_output_thread, lines 576-578: readline() returns '' at end-of-file
\* and the loop ends.
ReaderEOF ==
    /\ out.reader = "reading"
    /\ out.pipe = <<>>
    /\ out.child = "exited"
    /\ out' = [out EXCEPT !.reader = "done"]
    /\ UNCHANGED <<cfg, supVars, osVars, drain, ctl, res, auto_restarts,
                   output_callback, fileVars>>

\* A supervisor of any configuration, with or without a callback set by
\* set_output_callback before start().
OutInit ==
    /\ cfg \in Configs
    /\ SupervisorAtRest
    /\ FilesAtRest
    /\ output_callback \in BOOLEAN
    /\ out = NoOutput

OutNext ==
    \/ OutStart
    \/ \E l \in Lines : ChildWrite(l)
    \/ ReadLine
    \/ ChildExit
    \/ ReaderEOF

OutputSpec == OutInit /\ [][OutNext]_vars

\* ------------------------------------------- simply_maestro's FileManager
\* A path is a sequence of components and a component is the sequence of
\* the dot-separated parts of a name: "f.txt" is <<"f", "txt">>.
\* The components of the path arguments: "..", the allow-listed directory
\* "a" (also the working directory), "l" (/a/l is a symbolic link to the
\* root directory) and the file name "f.txt".
DotDot == <<"..">>
AllowedDir == <<"a">>
LinkName == <<"l">>
FileName == <<"f", "txt">>
Components == {DotDot, AllowedDir, LinkName, FileName}

\* The components of a path argument.
MaxPathLen == 2
\* The characters of a file's content, and the length of a content.
Chars == {"x", "y"}
MaxLen == 1

RawPaths == UNION {[1..n -> Components] : n \in 1..MaxPathLen}
Contents == UNION {[1..n -> Chars] : n \in 0..MaxLen}

\* The working directory of the process and the one symbolic link of the
\* file system.
cwd == <<AllowedDir>>
symlink == [at |-> <<AllowedDir, LinkName>>, target |-> <<>>]

\* FileManager.__init__: the allow-listed roots, resolved.
allowed_paths == {<<AllowedDir>>}

\* PurePath.parent and PurePath.name.
parent(p) == IF p = <<>> THEN <<>> ELSE SubSeq(p, 1, Len(p) - 1)
name(p) == p[Len(p)]

\* The kernel's walk of an absolute path: ".." goes to the parent of the
\* directory reached, a symbolic link is replaced by its target.
RECURSIVE walk(_, _)
walk(cur, rest) ==
    IF rest = <<>> THEN cur
    ELSE LET c == Head(rest) IN
         walk(IF c = DotDot THEN parent(cur)
              ELSE IF cur \o <<c>> = symlink.at THEN symlink.target
              ELSE cur \o <<c>>,
              Tail(rest))

\* os.path.realpath: the absolute path with no "..", no symbolic link.
realpath(p) == walk(<<>>, p)

\* Path.absolute(): the path as given, ".." and symbolic links left in it.
absolute(p) == p

\* Path.resolve()
resolve(p) == realpath(p)

\* PurePath.is_relative_to: by components, not by characters.
is_relative_to(p, r) == Len(r) <= Len(p) /\ SubSeq(p, 1, Len(r)) = r

\* FileManager._is_path_allowed
_is_path_allowed(p) ==
    LET q == resolve(p) IN
    \E allowed_path \in allowed_paths :
        q = allowed_path \/ is_relative_to(q, allowed_path)

\* Path.exists, Path.is_file, Path.is_dir: the kernel follows the links of
\* the path it is given.
is_file(p) == realpath(p) \in DOMAIN files
is_dir(p) == realpath(p) \in dirs
exists(p) == is_file(p) \/ is_dir(p)

\* PurePath.suffix, PurePath.stem on a name, and PurePath.with_suffix: the
\* suffix is the last dot-separated part of a name that has more than one.
suffix(n) == IF Len(n) >= 2 THEN <<n[Len(n)]>> ELSE <<>>
stem(n) == IF Len(n) >= 2 THEN SubSeq(n, 1, Len(n) - 1) ELSE n
with_suffix(p, suf) == parent(p) \o <<stem(name(p)) \o suf>>

\* write_file, line 93: path.with_suffix(f"{path.suffix}.bak")
backup_path(p) == with_suffix(p, suffix(name(p)) \o <<"bak">>)

\* The file system with content c in the file at p.
put(fs, p, c) == [x \in DOMAIN fs \cup {realpath(p)} |-> IF x = realpath(p) THEN c ELSE fs[x]]

\* Path.mkdir(parents=True, exist_ok=True) on d: possible when neither d nor
\* a directory above it is a regular file; it makes the missing directories.
prefixes(d) == {SubSeq(realpath(d), 1, k) : k \in 0..Len(realpath(d))}
mkdir_ok(d) == prefixes(d) \cap DOMAIN files = {}

\* What a call returns and the file system it leaves.
FileResult(ok, msg) ==
    [ok |-> ok, msg |-> msg, content |-> <<>>, listing |-> {}, files |-> files,
     dirs |-> dirs]

\* A write_file that takes no backup.
not_backed_up(p) == files

\* write_file, lines 92-95: shutil.copy2 of an existing file to its backup.
backed_up(p) == IF exists(p) THEN put(files, backup_path(p), files[realpath(p)]) ELSE files

\* FileManager.write_file
write_file(raw, content) ==
    LET p == resolve(raw) IN
    IF ~_is_path_allowed(p) THEN FileResult(FALSE, "Path not allowed")
    ELSE IF ~mkdir_ok(parent(p)) \/ is_dir(p)
    THEN FileResult(FALSE, "Failed to write file")
    ELSE [FileResult(TRUE, "File written successfully") EXCEPT
             !.content = content,
             !.dirs = dirs \cup prefixes(parent(p)),
             !.files = put(backed_up(p), p, content)]

\* FileManager.read_file
read_file(raw) ==
    LET p == resolve(raw) IN
    IF ~_is_path_allowed(p) THEN FileResult(FALSE, "Path not allowed")
    ELSE IF ~exists(p) THEN FileResult(FALSE, "File not found")
    ELSE IF ~is_file(p) THEN FileResult(FALSE, "Not a file")
    ELSE [FileResult(TRUE, "read") EXCEPT !.content = files[realpath(p)]]

\* original in current_content
contains(o, t) == \E i \in 1..(Len(t) - Len(o) + 1) : SubSeq(t, i, i + Len(o) - 1) = o

\* str.replace: every occurrence, left to right, without overlap; an empty
\* original matches before every character and at the end.
RECURSIVE replace(_, _, _)
replace(t, o, m) ==
    IF o = <<>>
    THEN IF t = <<>> THEN m ELSE m \o <<Head(t)>> \o replace(Tail(t), o, m)
    ELSE IF Len(t) < Len(o) THEN t
    ELSE IF SubSeq(t, 1, Len(o)) = o
    THEN m \o replace(SubSeq(t, Len(o) + 1, Len(t)), o, m)
    ELSE <<Head(t)>> \o replace(Tail(t), o, m)

\* FileManager.apply_diff
apply_diff(raw, original, modified) ==
    LET p == resolve(raw) IN
    IF ~_is_path_allowed(p) THEN FileResult(FALSE, "Path not allowed")
    ELSE IF ~exists(p) THEN FileResult(FALSE, "File not found")
    ELSE IF ~is_file(p) THEN FileResult(FALSE, "Failed to apply diff")
    ELSE LET current_content == files[realpath(p)]
             updated_content == replace(current_content, original, modified) IN
         IF ~contains(original, current_content)
         THEN FileResult(FALSE, "Original content not found in file")
         ELSE IF current_content = updated_content
         THEN FileResult(FALSE, "No changes were made to the file")
         ELSE write_file(p, updated_content)

\* The entries below a directory: its children, or everything under it.
entries(p, recursive) ==
    {x \in DOMAIN files \cup dirs :
        /\ x # realpath(p)
        /\ is_relative_to(x, realpath(p))
        /\ recursive \/ Len(x) = Len(realpath(p)) + 1}

\* FileManager.list_files
list_files(raw, recursive) ==
    LET p == resolve(raw) IN
    IF ~_is_path_allowed(p) THEN FileResult(FALSE, "Path not allowed")
    ELSE IF ~exists(p) THEN FileResult(FALSE, "Path not found")
    ELSE IF ~is_dir(p) THEN FileResult(FALSE, "Not a directory")
    ELSE [FileResult(TRUE, "listed") EXCEPT !.listing = entries(p, recursive)]

\* FileManager.find_files with its default filters (no pattern, no
\* .gitignore in the tree, no type, depth or size limit): the walk of the
\* whole directory.
find_files(raw) ==
    LET p == resolve(raw) IN
    IF ~_is_path_allowed(p) THEN FileResult(FALSE, "Path not allowed")
    ELSE IF ~exists(p) THEN FileResult(FALSE, "Path not found")
    ELSE IF ~is_dir(p) THEN FileResult(FALSE, "Not a directory")
    ELSE [FileResult(TRUE, "found") EXCEPT !.listing = entries(p, TRUE)]

\* FileManager.search_files: ripgrep over the path; rg_ok is whether the
\* program could be run and ended with status 0 or 1.
search_files(pattern, raw, rg_ok) ==
    LET p == resolve(raw) IN
    IF ~_is_path_allowed(p) THEN FileResult(FALSE, "Path not allowed")
    ELSE IF ~exists(p) THEN FileResult(FALSE, "Path not found")
    ELSE IF ~rg_ok THEN FileResult(FALSE, "Search failed")
    ELSE [FileResult(TRUE, "searched") EXCEPT
             !.listing = {x \in DOMAIN files : /\ is_relative_to(x, realpath(p))
                                               /\ contains(pattern, files[x])}]

\* A call returns r: the file system is as the call left it.
Returns(op, r) ==
    /\ files' = r.files
    /\ dirs' = r.dirs
    /\ fres' = [op |-> op, ok |-> r.ok, msg |-> r.msg, content |-> r.content,
                listing |-> r.listing]

\* What no FileManager call changes.
callerVars == <<cfg, supVars, osVars, drain, ctl, res, auto_restarts, outVars, path>>

ReadFile ==
    LET r == read_file(cwd \o path) IN
    /\ Returns("read_file", r)
    /\ UNCHANGED callerVars

\* The contents written stay within MaxLen characters.
WriteFile ==
    \E content \in Contents :
        LET r == write_file(cwd \o path, content) IN
        /\ Returns("write_file", r)
        /\ UNCHANGED callerVars

ApplyDiff ==
    \E original \in Contents, modified \in Contents :
        LET r == apply_diff(cwd \o path, original, modified) IN
        /\ Len(r.content) <= MaxLen
        /\ Returns("apply_diff", r)
        /\ UNCHANGED callerVars

ListFiles ==
    \E recursive \in BOOLEAN :
        LET r == list_files(cwd \o path, recursive) IN
        /\ Returns("list_files", r)
        /\ UNCHANGED callerVars

FindFiles ==
    LET r == find_files(cwd \o path) IN
    /\ Returns("find_files", r)
    /\ UNCHANGED callerVars

SearchFiles ==
    \E pattern \in {<<c>> : c \in Chars}, rg_ok \in BOOLEAN :
        LET r == search_files(pattern, cwd \o path, rg_ok) IN
        /\ Returns("search_files", r)
        /\ UNCHANGED callerVars

\* The content of the files that exist before the first call.
InitialContent == <<"x">>

\* A FileManager on the root /a, called with one path argument, on a file
\* system that holds /f.txt outside the root and may hold /a/f.txt and a
\* backup of it left by earlier use.
FileInit ==
    /\ cfg \in {c \in Configs : c.command = "plain" /\ ~c.port /\ ~c.capture_output
                                 /\ ~c.log_to_file}
    /\ SupervisorAtRest
    /\ OutputAtRest
    /\ path \in RawPaths
    /\ dirs = {<<>>, <<AllowedDir>>}
    /\ \E inside \in SUBSET {<<AllowedDir, FileName>>, backup_path(<<AllowedDir, FileName>>)} :
          files = [x \in inside \cup {<<FileName>>} |-> InitialContent]
    /\ fres = NoFileResult

FileNext ==
    \/ ReadFile
    \/ WriteFile
    \/ ApplyDiff
    \/ ListFiles
    \/ FindFiles
    \/ SearchFiles

FileSpec == FileInit /\ [][FileNext]_vars

\* ------------------------------------------------------------- the claims
\* The children of this supervisor that are alive.
LiveChildren == {p \in spawned : Alive(p)}

\* C1: a start() call made while is_running is true returns ok=true and
\* spawns nothing: pid, handle, restart counter, log handle, the process
\* table and the drains are what they were before the call.
C1_StartIdempotent ==
    [][(ctl.pc = "idle" /\ is_running /\ res'.op = "start")
          => /\ res'.ok
             /\ res'.msg = "already_running"
             /\ UNCHANGED <<supVars, osVars, drain>>]_vars

\* C1 witness: a start() has just answered "already running" and the child
\* it found is the only live child.
C1_Witness ==
    /\ res.op = "start"
    /\ res.msg = "already_running"
    /\ is_running
    /\ LiveChildren = {pid}

\* C2: a stop() call made while no tracked process is alive returns ok=true,
\* sends no signal (it does not enter the termination wait, no kill is
\* pending) and leaves the supervisor and the OS as they were.
C2_StopIdempotent ==
    [][(ctl.pc = "idle" /\ ~Alive(pid) /\ res'.op = "stop")
          => /\ res'.ok
             /\ ctl' = ctl
             /\ UNCHANGED <<supVars, osVars, drain>>]_vars

\* C2 witness: stop() has just answered "not running" on a supervisor that
\* ran a child before and tracks nothing now.
C2_Witness ==
    /\ res.op = "stop"
    /\ res.ok
    /\ res.msg = "not_running"
    /\ spawned # {}
    /\ pid = None

\* C3: a restart() that returns ok=true on a supervisor that tracked a live
\* process leaves a tracked pid different from the one before the call.
C3_RestartChangesPid ==
    (res.op = "restart" /\ res.ok /\ res.run0) => pid # res.pid0

\* C4: after a stop() that returns ok=true on a supervisor with a configured
\* port that tracked a live process, nothing listens on the port.
C4_StopReleasesPort ==
    (res.op = "stop" /\ res.ok /\ cfg.port /\ res.run0) => _find_process_by_port = None

\* C5: the drain spawns at most max_restart_attempts children after the
\* controller's last explicit start() or restart().
C5_AutoRestartBounded == auto_restarts <= cfg.max_restart_attempts

\* C6, for the configurations that capture the output and log it to a file
\* (the defaults of ProcessConfig): once an owned child has exited on its own
\* (no call of the controller in flight) with the counter below the maximum,
\* the supervisor eventually notices and drops the handle of that child.
C6_ExitDetected ==
    \A p \in Pids :
        (cfg.capture_output /\ cfg.log_to_file /\ process = p /\ proc[p] = "dead"
            /\ ctl.pc = "idle" /\ restart_count < cfg.max_restart_attempts)
        ~> (process # p)

\* C7: restart() spawns the replacement only when the process it was asked to
\* replace is gone and, with a port configured, the port has no owner.
C7_RestartOrdering ==
    [][(ctl.pc = "restart_delay" /\ spawned' # spawned)
          => /\ ~Alive(ctl.pid0)
             /\ cfg.port => portOwner' = None]_vars

\* C8: at most one child spawned by this supervisor is alive at any time.
C8_OneLiveChild == Cardinality(LiveChildren) <= 1

\* C9: is_running is true exactly when a pid is tracked and that pid is
\* alive, for owned and attached runs alike.
C9_IsRunningExact == is_running <=> (pid # None /\ Alive(pid))

\* C10: start(force_new_process=False) with a configured port whose owner the
\* probe finds, on a supervisor that is not running, adopts the owner (pid is
\* the owner, no handle), returns ok=true and spawns nothing, opens no log
\* and starts no drain; so no unforced start spawns while the port is owned.
C10_StartAttaches ==
    [][(ctl.pc = "idle" /\ res'.op = "start" /\ ~res'.force /\ cfg.port
            /\ _find_process_by_port # None)
          => /\ res'.ok
             /\ UNCHANGED <<osVars, drain, log_file_handle, restart_count>>
             /\ ~is_running => (pid' = _find_process_by_port /\ process' = None
                                  /\ res'.msg = "attached")]_vars

\* C10 witness: an unforced start() has just adopted the owner of the port.
C10_Witness ==
    /\ res.op = "start"
    /\ ~res.force
    /\ res.msg = "attached"
    /\ pid = portOwner
    /\ process = None
    /\ pid \notin spawned

\* C11: a stop() that returns ok=true on an Attached run (the tracked pid was
\* adopted from the port, it is not a child of this supervisor, and it was
\* alive when stop() was called) has terminated that process, and that
\* process no longer owns the port.
C11_StopAttached ==
    (res.op = "stop" /\ res.ok /\ res.run0 /\ res.pid0 \notin spawned)
        => (~Alive(res.pid0) /\ portOwner # res.pid0)

\* A start(force_new_process=True) returns in this step: the one restart()
\* makes, one the controller makes, or the one of the auto-restart path.
ForcedStartStep ==
    \/ res'.op \in {"start", "restart"} /\ res'.force
    \/ \E p \in Pids : drain[p] = "delay" /\ drain'[p] # "delay"

\* C12: a start(force_new_process=True) on a supervisor that is not running,
\* with a configured port that has an owner, sends the owner the escalating
\* termination (afterwards the owner is dead, or the kill is still pending,
\* or the owner refused the signal); when the port still has an owner after
\* that, the call spawns nothing and, made by the controller, returns
\* ok=false with the port-conflict message; so a forced start only spawns
\* when the port has no owner.
C12_ForcedStartClearsPort ==
    [][(ForcedStartStep /\ cfg.port /\ ~is_running /\ portOwner # None)
          => /\ \/ proc'[portOwner] = "dead"
                \/ portOwner \in killPending'
                \/ portOwner \in unsignalable
             /\ portOwner' # None
                  => /\ spawned' = spawned
                     /\ pid' = pid
                     /\ res'.op # "none" => (~res'.ok /\ res'.msg = "port_conflict")
             /\ spawned' # spawned => portOwner' = None]_vars

\* C12 witness: a forced start has just failed with the port conflict: the
\* owner of the port outlived the kill, which is still pending.
C12_Witness ==
    /\ res.op \in {"start", "restart"}
    /\ res.force
    /\ ~res.ok
    /\ res.msg = "port_conflict"
    /\ portOwner # None
    /\ portOwner \in killPending

\* C13: after the start that restart() or the auto-restart path makes, the
\* supervisor is not Attached: it tracks nothing, or it tracks a child it
\* spawned and holds the handle of; never a pid adopted from the port.
C13_NeverAttachedAfterRestart ==
    [][(res'.op = "restart" \/ \E p \in Pids : drain[p] = "delay" /\ drain'[p] # "delay")
          => (pid' = None \/ (process' = pid' /\ pid' \in spawned'))]_vars

\* The messages of a start() whose spawn raised.
SpawnFailures == {"spawn_failed: open", "spawn_failed: Popen"}

\* C14: a start() whose spawn failed (opening the log or Popen raised)
\* returns ok=false with a message that names what failed (only a
\* configuration that logs to a file can fail to open the log), has spawned
\* nothing, leaves no log handle open and leaves is_running false.
C14_SpawnFailure ==
    [][(res'.op \in {"start", "restart"} /\ res'.msg \in SpawnFailures)
          => /\ ~res'.ok
             /\ res'.msg = "spawn_failed: open" => cfg.log_to_file
             /\ spawned' = spawned
             /\ log_file_handle' # "open"
             /\ ~is_running'
             /\ ~is_running]_vars

\* C14 witness: Popen has just failed in a start() of a configuration that
\* logs to a file, on a supervisor that ran a child before; the log it
\* opened for the new child is closed and dropped.
C14_Witness ==
    /\ res.op = "start"
    /\ res.msg = "spawn_failed: Popen"
    /\ cfg.log_to_file
    /\ spawned # {}
    /\ log_file_handle = "None"

\* C15: a stop() that returns ok=true on a supervisor that was running a
\* child of its own (spawned by it, alive when stop() was called) has that
\* child gone: a child that outlives the SIGKILL makes stop() fail.
C15_StopOnlyWhenGone ==
    (res.op = "stop" /\ res.ok /\ res.run0 /\ res.pid0 \in spawned)
        => ~Alive(res.pid0)

\* C16: start(), stop() and restart() hand an (ok, message) pair back to the
\* controller whatever the OS answers (a signal refused, a log that cannot be
\* opened, a Popen that fails, a port that stays owned): no call ends by
\* raising.
C16_NoException == res.msg # "raised"

C18_StopTearsDown ==
    (res.op = "stop" /\ res.ok) => (pid = None /\ process = None)

\* The drain detects the exit of the tracked child in this step.
ExitDetectedStep ==
    /\ process # None
    /\ process' = None
    /\ \E p \in Pids : drain[p] = "reading" /\ drain'[p] # "reading"

\* C19: the run is over and its log is closed: when stop() has just returned
\* ok=true, when the drain has just detected an exit, and when a start() has
\* just failed, the supervisor holds no open log handle.
C19_LogClosed ==
    [][(\/ res'.op = "stop" /\ res'.ok
        \/ res'.op \in {"start", "restart"} /\ ~res'.ok
        \/ ExitDetectedStep)
          => log_file_handle' # "open"]_vars

\* C20: the restart-attempt counter is between 0 and max_restart_attempts
\* in every reachable state, and a step only raises it by one and only from
\* a value strictly below the maximum.
C20_CounterBounded ==
    /\ [](restart_count \in 0..cfg.max_restart_attempts)
    /\ [][restart_count' > restart_count
             => /\ restart_count < cfg.max_restart_attempts
                /\ restart_count' = restart_count + 1]_vars

\* C20 witness: the drain has detected an exit and counted the last attempt
\* the configuration allows; it sleeps the delay before the restart.
C20_Witness ==
    /\ restart_count = cfg.max_restart_attempts
    /\ restart_count > 0
    /\ \E p \in Pids : drain[p] = "delay"

\* C21: when an explicit start() has just returned ok=true, having spawned,
\* attached or found the process already running, the restart-attempt
\* counter is 0.
C21_CounterResetOnStart ==
    (res.op = "start" /\ res.ok) => restart_count = 0

\* C23: with no port configured, is_running is true when start() has just
\* returned ok=true and false when stop() has just returned ok=true.
C23_StartStopNoPort ==
    ~cfg.port
        => /\ (res.op = "start" /\ res.ok) => is_running
           /\ (res.op = "stop" /\ res.ok) => ~is_running

\* C23 witness: with no port configured, a stop() of a child that start()
\* spawned and that was alive has just returned "Process stopped".
C23_Witness ==
    /\ ~cfg.port
    /\ res.op = "stop"
    /\ res.ok
    /\ res.msg = "stopped"
    /\ res.run0
    /\ res.pid0 \in spawned
    /\ ~is_running

\* C26: no child is spawned while a stop() call is in flight, nor in the
\* step that follows a stop() that returned ok=true, unless that step is a
\* start() or restart() of the controller: an explicit stop() is never
\* answered by an auto-restart.
C26_StopNoAutoRestart ==
    [][((ctl.op = "stop" \/ (res.op = "stop" /\ res.ok))
            /\ res'.op \notin {"start", "restart"} /\ ctl'.op # "restart")
          => spawned' = spawned]_vars

\* C27: stop() sends no SIGKILL in the step that sends the SIGTERM, and when
\* it sends the SIGKILL after the bounded wait, the process it was asked to
\* stop is still alive and is the one whose group is signalled.
C27_EscalationOrder ==
    [][/\ (ctl.pc = "idle" /\ ctl'.pc = "term_wait") => killPending' = killPending
       /\ (ctl.pc = "kill_due" /\ ctl'.pc # "kill_due" /\ pid # None)
             => (Alive(ctl.target) /\ pid = ctl.target)]_vars

\* C28: every call of the controller ends: a stop() or restart() in flight
\* (at the wait for the termination, at the SIGKILL, at a wait for the port
\* or at the restart delay) can always take its next step, whatever the
\* child, the owner of the port and the drains do, and every step takes it
\* to a later suspension point or to its return: no wait is repeated and a
\* call goes through at most five of them; start() is a single step.
C28_CallsTerminate ==
    /\ [](ctl.pc # "idle" => ENABLED CallStep)
    /\ [][CallStep => CallRank[ctl'.pc] < CallRank[ctl.pc]]_vars

\* C28 witness: a stop() has gone through all its waits and has just
\* returned, although the child ignored the signals and is still alive, the
\* port is still owned, and the drain of the child is still reading.
C28_Witness ==
    /\ res.op = "stop"
    /\ res.msg = "port_in_use"
    /\ res.run0
    /\ Alive(res.pid0)
    /\ portOwner # None
    /\ drain[res.pid0] = "reading"

\* C29: a start(force_new_process=True), of the controller or of the
\* auto-restart path, spawns only when no child spawned before is alive
\* (other than one a SIGKILL is pending for, the case of C15): of the two
\* starts that answer one exit, the second finds the child of the first and
\* spawns nothing.
C29_OneSpawnPerExit ==
    [][(ForcedStartStep /\ spawned' # spawned)
          => \A p \in LiveChildren : p \in killPending]_vars

\* A drain's reader met end-of-file and its exit check ran in this step.
DrainEnds == \E p \in Pids : drain[p] = "reading" /\ drain'[p] # "reading"

\* C30: the exit check of a drain acts on the child tracked now: while that
\* child is alive (a drain of an earlier child finishing late) the step
\* leaves pid, handle, log handle and counter alone and schedules no
\* restart; an attempt is counted only for a tracked child that has exited,
\* whose handle the same step clears, so that a second drain observing the
\* same exit finds nothing to count.
C30_DrainChecksTrackedChild ==
    [][DrainEnds
          => /\ (process # None /\ Alive(process))
                  => /\ UNCHANGED <<process, pid, log_file_handle, restart_count>>
                     /\ \A q \in Pids : drain'[q] = "delay" => drain[q] = "delay"
             /\ restart_count' # restart_count
                  => /\ process # None
                     /\ ~Alive(process)
                     /\ process' = None
                     /\ pid' = None]_vars

\* C30 witness: the drain of an earlier child has just finished while a
\* newer child is tracked and alive, with its own drain still reading.
C30_Witness ==
    /\ res.op = "drain"
    /\ process # None
    /\ res.pid0 # process
    /\ Alive(process)
    /\ drain[process] = "reading"

\* A line without its line terminator.
strip_terminator(l) ==
    IF l # <<>> /\ l[Len(l)] = "\n" THEN SubSeq(l, 1, Len(l) - 1) ELSE l

\* The lines of a sequence, each without its terminator.
Delivered(ls) == [i \in 1..Len(ls) |-> strip_terminator(ls[i])]

\* C22: with a callback registered, capture_output and log_to_file set, once
\* the child has exited and nothing of its output is in flight, the callback
\* has received every line the child wrote, in the order written, without
\* the line terminator, and the log file holds the same lines.
C22_LinesDelivered ==
    (/\ output_callback
     /\ cfg.capture_output
     /\ cfg.log_to_file
     /\ out.child = "exited"
     /\ out.pipe = <<>>
     /\ out.reader # "reading")
        => /\ out.observed = Delivered(out.written)
           /\ Delivered(out.logged) = Delivered(out.written)

\* The file the path argument names, as the kernel resolves it.
Target == realpath(cwd \o path)

\* The path argument resolves outside every allow-listed root.
Outside == \A r \in allowed_paths : ~is_relative_to(Target, r)

\* C24: every FileManager operation (read_file, write_file, apply_diff,
\* list_files, find_files, search_files) called with a path that resolves
\* outside every allow-listed root returns ok=false with the message 'Path
\* not allowed' and leaves every file and directory as it was.
C24_PathNotAllowed ==
    [][(fres'.op # "none" /\ Outside)
          => /\ ~fres'.ok
             /\ fres'.msg = "Path not allowed"
             /\ files' = files
             /\ dirs' = dirs]_vars

\* C24 witness: a write_file through the symbolic link /a/l, which resolves
\* to /f.txt outside the root, has just been refused; /f.txt exists.
C24_Witness ==
    /\ fres.op = "write_file"
    /\ fres.msg = "Path not allowed"
    /\ path = <<LinkName, FileName>>
    /\ Target = <<FileName>>
    /\ Target \in DOMAIN files

\* The '.bak' sibling of the target: the same directory, the target's name
\* followed by ".bak".
Sibling == parent(Target) \o <<name(Target) \o <<"bak">>>>

\* C25: a successful write_file or apply_diff on a file that exists leaves
\* the content written in the file and, in its '.bak' sibling, exactly the
\* content the file had before the call; so after any sequence of such
\* calls on one path the backup holds the content before the last write.
C25_BackupBeforeWrite ==
    [][(fres'.op \in {"write_file", "apply_diff"} /\ fres'.ok /\ Target \in DOMAIN files)
          => /\ files'[Target] = fres'.content
             /\ Sibling \in DOMAIN files'
             /\ files'[Sibling] = files[Target]]_vars

\* C25 witness: an apply_diff has just succeeded on a file that was written
\* before: the file holds the content written and its backup another one.
C25_Witness ==
    /\ fres.op = "apply_diff"
    /\ fres.ok
    /\ Sibling \in DOMAIN files
    /\ files[Target] = fres.content
    /\ files[Sibling] # files[Target]
    /\ files[Sibling] # InitialContent
====
